---- MODULE Spec2Model ----
(***************************************************************************)
(* A model of CityAnalysis/script/kit_producer_report.py: the reward-graph *)
(* resolver, the reward classifier, the aggregator and the spreadsheet     *)
(* package writer.                                                         *)
(*                                                                         *)
(* Python values are tagged records, so that values of different Python    *)
(* types can be told apart and compared:                                   *)
(*   None                [t |-> "null"]                                    *)
(*   bool                [t |-> "bool",  b |-> TRUE]                       *)
(*   int                 [t |-> "int",   i |-> 3]                          *)
(*   float               [t |-> "float", v |-> [n |-> 1, d |-> 2]]         *)
(*   str                 [t |-> "str",   s |-> "abc"]                      *)
(*   list                [t |-> "list",  items |-> << ... >>]              *)
(*   dict                [t |-> "dict",  d |-> [key |-> value, ...]]       *)
(* A float is modelled by the exact rational it stands for, in lowest      *)
(* terms with a positive denominator (rounding is not modelled).           *)
(***************************************************************************)
EXTENDS Integers, Sequences, FiniteSets, TLC

VARIABLES
    mode,          \* which part of the program this behaviour exercises
    pvalue,        \* normalize_probability: the argument `value`
    presult,       \* normalize_probability: the value returned
    peffective,    \* aggregate_kit_reports: effective_prob computed from it
    ppc,           \* position in the normalize/effective-probability steps
    col_input,     \* column_name: the argument `index`
    col_name,      \* column_name: the string returned (a sequence of letters)
    col_pc,        \* position: "call" before the call, "done" after
    x_sheets,      \* create_xlsx: the argument `sheets`, a list of (name, rows)
    x_zf,          \* create_xlsx: the entries written to the archive, in order
    x_file,        \* the file at `path`: "absent", "open" (being written), "closed"
    x_pc,          \* create_xlsx: "start", "fixed", "sheets", "close", "done"
    x_step,        \* create_xlsx: index of the next fixed part / next sheet
    a_matches,     \* aggregate_kit_reports: the argument `matches`
    kit_map,       \* aggregate_kit_reports: kit key -> buckets in insertion order
    a_i,           \* index of the current entry of matches
    a_j,           \* index of the current reward of the current entry
    a_pc,          \* "call", "loop", "rank", "returned", "raised" (or "idle")
    a_error,       \* the exception that ended the call, "" when none
    a_reports,     \* the value returned by the current call (kit key -> ranked list)
    a_first,       \* the value returned by the first call
    a_run,         \* 1 during the first call on a_matches, 2 during the second
    entities,      \* main: the values of CityEntities, in order
    m_i,           \* main: index of the next entity of the loop
    m_pc,          \* main: "entities", "aggregate", "report", "done", "raised" (or "idle")
    m_error,       \* main: the exception that ended the run, "" when none
    er_component,  \* main: era_component of the entity whose rewards are classified
    er_lookup,     \* main: lookup, the value of reward_lookup(era_component)
    er_pos,        \* main: number of tuples taken from iter_reward_products so far
    er_leaf,       \* main: the tuple taken from the resolver in the last iteration
    er_entry,      \* main: reward_entry of the last iteration
    er_parsed,     \* main: parsed of the last iteration
    er_rewards,    \* main: era_rewards
    er_pc,         \* "lookup", "loop", "done", "raised" (or "idle")
    er_error,      \* the exception that ended the loop, "" when none
    pr_entry,      \* parse_reward_entry: the argument `entry`
    pr_result,     \* parse_reward_entry: the value returned
    pr_pc,         \* "call" before the call, then "returned" or "raised" (or "idle")
    pr_error       \* parse_reward_entry: the exception raised, "" when none

probVars == <<pvalue, presult, peffective, ppc>>
colVars  == <<col_input, col_name, col_pc>>
xlsxVars == <<x_sheets, x_zf, x_file, x_pc, x_step>>
aggVars  == <<a_matches, kit_map, a_i, a_j, a_pc, a_error, a_reports, a_first, a_run>>
mainVars == <<entities, m_i, m_pc, m_error>>
eraVars  == <<er_component, er_lookup, er_pos, er_leaf, er_entry, er_parsed, er_rewards,
             er_pc, er_error>>
parseVars == <<pr_entry, pr_result, pr_pc, pr_error>>
vars     == <<mode, probVars, colVars, xlsxVars, aggVars, mainVars, eraVars, parseVars>>

----------------------------------------------------------------------------
(* Bounds of the model. *)

\* chance values tried: the integers -MaxChanceInt .. 100 + MaxChanceInt
MaxChanceInt == 30
\* chance values tried: the floats k / ChanceDen for k in -ChanceDen .. 2 * ChanceDen
ChanceDen == 4
\* column indices tried: 0 .. MaxColumn
MaxColumn == 705
\* create_xlsx is tried on 0 .. MaxSheets sheets
MaxSheets == 2
\* each sheet has 0 .. MaxRows rows
MaxRows == 2
\* each row has MaxCells cells or, to make the sheet ragged, MaxCells - 1
MaxCells == 2
\* aggregate_kit_reports is tried on lists of 0 .. MaxMatches entries
MaxMatches == 2
\* main is tried on 1 .. MaxEntities entities
MaxEntities == 2
\* random nodes are nested up to MaxNesting deep
MaxNesting == 2
\* a chest is tried with 0 .. MaxCandidates candidates
MaxCandidates == 2

----------------------------------------------------------------------------
(* Rational arithmetic for Python floats. *)

Abs(x) == IF x < 0 THEN -x ELSE x

RECURSIVE Gcd(_, _)
Gcd(a, b) == IF b = 0 THEN a ELSE Gcd(b, a % b)

\* the rational n/d (d # 0) in lowest terms with a positive denominator
Rat(n, d) ==
    LET g == Gcd(Abs(n), Abs(d))
        s == IF d < 0 THEN -1 ELSE 1
    IN  [n |-> (s * n) \div g, d |-> (s * d) \div g]

RInt(k)    == [n |-> k, d |-> 1]
RAdd(a, b) == Rat(a.n * b.d + b.n * a.d, a.d * b.d)
RMul(a, b) == Rat(a.n * b.n, a.d * b.d)
RDiv(a, b) == Rat(a.n * b.d, a.d * b.n)
RNeg(a)    == [n |-> -a.n, d |-> a.d]
RLt(a, b)  == a.n * b.d < b.n * a.d
RLe(a, b)  == a.n * b.d <= b.n * a.d

----------------------------------------------------------------------------
(* Python values. *)

None      == [t |-> "null"]
PyBool(b) == [t |-> "bool", b |-> b]
PyInt(i)  == [t |-> "int", i |-> i]
PyFloat(r) == [t |-> "float", v |-> r]
PyStr(s)  == [t |-> "str", s |-> s]
PyList(q) == [t |-> "list", items |-> q]
PyDict(f) == [t |-> "dict", d |-> f]
EmptyDict == PyDict(<<>>)

\* isinstance(v, dict), isinstance(v, list), isinstance(v, str)
IsDict(v) == v.t = "dict"
IsList(v) == v.t = "list"
IsStr(v)  == v.t = "str"
\* isinstance(v, int): bool is a subclass of int
IsInt(v)  == v.t \in {"int", "bool"}
\* isinstance(v, (int, float))
IsNumber(v) == v.t \in {"int", "bool", "float"}

\* float(v) for a number
NumberToRat(v) ==
    CASE v.t = "int"   -> RInt(v.i)
      [] v.t = "bool"  -> RInt(IF v.b THEN 1 ELSE 0)
      [] v.t = "float" -> v.v

\* d.get(key) and d.get(key, default) for a dict d; `key in d`
HasKey(dct, key) == key \in DOMAIN dct.d
Get(dct, key) == IF HasKey(dct, key) THEN dct.d[key] ELSE None
GetOr(dct, key, default) == IF HasKey(dct, key) THEN dct.d[key] ELSE default

\* bool(v): Python truthiness
Truthy(v) ==
    CASE v.t = "null"  -> FALSE
      [] v.t = "bool"  -> v.b
      [] v.t = "int"   -> v.i # 0
      [] v.t = "float" -> v.v.n # 0
      [] v.t = "str"   -> v.s # ""
      [] v.t = "list"  -> v.items # <<>>
      [] v.t = "dict"  -> DOMAIN v.d # {}

----------------------------------------------------------------------------
(* normalize_probability and _as_float. *)

\* float(s) for the strings of the model: the numeral's value, or None for a
\* string float() rejects with ValueError
ParseFloat(s) ==
    CASE s = "0.5" -> PyFloat(Rat(1, 2))
      [] s = "1"   -> PyFloat(RInt(1))
      [] s = "50"  -> PyFloat(RInt(50))
      [] s = "250" -> PyFloat(RInt(250))
      [] s = "-1"  -> PyFloat(RInt(-1))
      [] OTHER     -> None

_as_float(value) ==
    IF IsNumber(value) THEN PyFloat(NumberToRat(value))
    ELSE IF IsStr(value) THEN ParseFloat(value.s)
    ELSE None

\* a plausible slip: the percentage test includes 1 (1 becomes 0.01)
normalize_probability_ge(value) ==
    LET numeric == _as_float(value)
    IN  IF numeric = None THEN None
        ELSE IF ~RLt(numeric.v, RInt(1)) THEN PyFloat(RDiv(numeric.v, RInt(100)))
        ELSE numeric

normalize_probability(value) ==
    LET numeric == _as_float(value)
    IN  IF numeric = None THEN None
        ELSE IF RLt(RInt(1), numeric.v) THEN PyFloat(RDiv(numeric.v, RInt(100)))
        ELSE numeric

\* aggregate_kit_reports, lines 360-362: the probability recorded and the
\* effective probability used for the expected value
RecordedProb(drop_prob) == IF IsNumber(drop_prob) THEN drop_prob ELSE None
EffectiveProb(drop_prob) ==
    LET prob == RecordedProb(drop_prob)
    IN  IF IsNumber(prob) THEN NumberToRat(prob) ELSE RInt(1)

----------------------------------------------------------------------------
(* column_name. *)

AsciiUpper == <<"A", "B", "C", "D", "E", "F", "G", "H", "I", "J", "K", "L", "M",
                "N", "O", "P", "Q", "R", "S", "T", "U", "V", "W", "X", "Y", "Z">>

\* chr(code) for 65 <= code <= 90
chr(code) == AsciiUpper[code - 64]

\* the while loop of column_name: one iteration per call
RECURSIVE ColumnLoop(_, _)
ColumnLoop(index, name) ==
    IF index > 0
    THEN LET q == (index - 1) \div 26
             remainder == (index - 1) % 26
         IN  ColumnLoop(q, <<chr(65 + remainder)>> \o name)
    ELSE name

\* a plausible slip: divmod(index, 26) without the "- 1" (ordinary base 26)
RECURSIVE ColumnLoopBase26(_, _)
ColumnLoopBase26(index, name) ==
    IF index > 0
    THEN ColumnLoopBase26(index \div 26, <<chr(65 + (index % 26))>> \o name)
    ELSE name

column_name_base26(index) == ColumnLoopBase26(index, <<>>)

column_name(index) == ColumnLoop(index, <<>>)

----------------------------------------------------------------------------
(* The spreadsheet package writer.  A part's XML text is modelled by the     *)
(* data it carries: the list of its elements with their attributes.  Part    *)
(* names, relationship ids and cell references are the strings the code      *)
(* builds.  Relationship types are named by the last segment of their URI.   *)

DecimalDigits == <<"0", "1", "2", "3", "4", "5", "6", "7", "8", "9">>

\* str(n) / f"{n}" for an int n >= 0
RECURSIVE Str(_)
Str(n) == IF n < 10 THEN DecimalDigits[n + 1]
          ELSE Str(n \div 10) \o DecimalDigits[(n % 10) + 1]

\* "".join(chars)
RECURSIVE JoinChars(_)
JoinChars(chars) == IF chars = <<>> THEN "" ELSE Head(chars) \o JoinChars(Tail(chars))

\* xml.sax.saxutils.escape for the strings of the model
escape(text) ==
    CASE text = "R&D" -> "R&amp;D"
      [] text = "a<b" -> "a&lt;b"
      [] OTHER -> text

\* cell(value, cell_type="string")
cell(value, cell_type) == [value |-> value, type |-> cell_type]

\* build_content_types(sheet_count): the PartName of each Override, in order
build_content_types(sheet_count) ==
    <<"/xl/workbook.xml">>
    \o [idx \in 1 .. sheet_count |-> "/xl/worksheets/sheet" \o Str(idx) \o ".xml"]
    \o <<"/xl/styles.xml", "/docProps/core.xml", "/docProps/app.xml">>

\* build_root_rels(): the Relationship elements
build_root_rels ==
    << [Id |-> "rId1", Type |-> "officeDocument", Target |-> "xl/workbook.xml"],
       [Id |-> "rId2", Type |-> "core-properties", Target |-> "docProps/core.xml"],
       [Id |-> "rId3", Type |-> "extended-properties", Target |-> "docProps/app.xml"] >>

\* build_core_properties(timestamp)
build_core_properties(timestamp) == [created |-> timestamp, modified |-> timestamp]

\* build_app_properties(sheet_names)
build_app_properties(sheet_names) ==
    [worksheets |-> Len(sheet_names),
     titles |-> [k \in 1 .. Len(sheet_names) |-> escape(sheet_names[k])]]

\* build_styles_xml(): one font, fill, border and cell format
build_styles_xml == [fonts |-> 1, fills |-> 1, borders |-> 1, cellXfs |-> 1]

\* build_workbook_xml(sheets): the sheet elements, in order
build_workbook_xml(sheets) ==
    [idx \in 1 .. Len(sheets) |->
        [name |-> escape(sheets[idx].name), sheetId |-> Str(idx), rid |-> "rId" \o Str(idx)]]

\* a plausible slip: the styles relationship reuses the last sheet's id
build_workbook_rels_clash(sheet_count) ==
    [idx \in 1 .. sheet_count |->
        [Id |-> "rId" \o Str(idx), Type |-> "worksheet",
         Target |-> "worksheets/sheet" \o Str(idx) \o ".xml"]]
    \o << [Id |-> "rId" \o Str(sheet_count), Type |-> "styles", Target |-> "styles.xml"] >>

\* build_workbook_rels(sheet_count): the Relationship elements
build_workbook_rels(sheet_count) ==
    [idx \in 1 .. sheet_count |->
        [Id |-> "rId" \o Str(idx), Type |-> "worksheet",
         Target |-> "worksheets/sheet" \o Str(idx) \o ".xml"]]
    \o << [Id |-> "rId" \o Str(sheet_count + 1), Type |-> "styles", Target |-> "styles.xml"] >>

\* str(value) for the cell values of the model
PyStrOf(value) ==
    CASE value.t = "str" -> value.s
      [] value.t = "int" -> Str(value.i)
      [] value.t = "null" -> "None"

\* build_sheet_xml, lines 704-715: one <c> element
SheetCell(cell_value, row_idx, col_idx) ==
    LET ref == JoinChars(column_name(col_idx)) \o Str(row_idx)
        value == cell_value.value
        ctype == cell_value.type
    IN  IF ctype = "number" /\ IsNumber(value)
        THEN [r |-> ref, t |-> "n", v |-> PyStrOf(value)]
        ELSE [r |-> ref, t |-> "inlineStr",
              v |-> escape(IF value = None THEN "" ELSE PyStrOf(value))]

\* build_sheet_xml(rows): the row elements with their cells
build_sheet_xml(rows) ==
    [row_idx \in 1 .. Len(rows) |->
        [r |-> Str(row_idx),
         cells |-> [col_idx \in 1 .. Len(rows[row_idx]) |->
                       SheetCell(rows[row_idx][col_idx], row_idx, col_idx)]]]

\* create_xlsx, lines 556-562: the parts written before the worksheets
FixedParts(sheets, timestamp) ==
    << [name |-> "[Content_Types].xml", data |-> build_content_types(Len(sheets))],
       [name |-> "_rels/.rels", data |-> build_root_rels],
       [name |-> "docProps/core.xml", data |-> build_core_properties(timestamp)],
       [name |-> "docProps/app.xml",
        data |-> build_app_properties([k \in 1 .. Len(sheets) |-> sheets[k].name])],
       [name |-> "xl/styles.xml", data |-> build_styles_xml],
       [name |-> "xl/workbook.xml", data |-> build_workbook_xml(sheets)],
       [name |-> "xl/_rels/workbook.xml.rels", data |-> build_workbook_rels(Len(sheets))] >>

\* create_xlsx, line 554: the timestamp of the run
Timestamp == "2024-01-01T00:00:00Z"

----------------------------------------------------------------------------
(* The aggregator. *)

\* TARGET_KIT_SUBTYPES: the keys in insertion order, and the labels
KitKeys == <<"one_up_kit", "renovation_kit">>
KitKeySet == {KitKeys[k] : k \in 1 .. Len(KitKeys)}
KitLabel(key) == IF key = "one_up_kit" THEN "One Up Kit" ELSE "Renovation Kit"

\* fragments per kit (line 354)
FragmentsPerKit == 30

\* the strings used as building names, in Python's order of str (by code
\* point: upper case sorts before lower case)
NameOrder == <<"Bakery", "Zoo", "arena">>
StrRank(str) == CHOOSE k \in 1 .. Len(NameOrder) : NameOrder[k] = str
\* a < b for two str values
StrLess(a, b) == StrRank(a.s) < StrRank(b.s)

\* a tuple (x, y)
PyTuple(items) == [t |-> "tuple", items |-> items]

\* float(amount or 0), line 349: the exception raised, "" when none
AmountError(amount) ==
    IF ~Truthy(amount) THEN ""
    ELSE IF IsNumber(amount) THEN ""
    ELSE IF IsStr(amount) THEN (IF ParseFloat(amount.s) = None THEN "ValueError" ELSE "")
    ELSE "TypeError"

\* float(amount or 0), line 349: the value, when no exception is raised
AmountFloat(amount) ==
    IF ~Truthy(amount) THEN RInt(0)
    ELSE IF IsNumber(amount) THEN NumberToRat(amount)
    ELSE ParseFloat(amount.s).v

\* a plausible slip: every unit other than fragments is converted like kits
FragmentsOfAnyUnit(amount, unit) ==
    IF unit # PyStr("fragments") THEN RMul(amount, RInt(FragmentsPerKit)) ELSE amount

\* lines 351-358: the fragment equivalent of an amount in a unit
FragmentsOf(amount, unit) ==
    IF unit = PyStr("kits") THEN RMul(amount, RInt(FragmentsPerKit)) ELSE amount

\* lines 352-358: the source note, as the data it is formatted from
SourceNote(amount, unit) ==
    IF unit = PyStr("kits")
    THEN [amount |-> amount, unit |-> PyStr(IF amount = RInt(1) THEN "kit" ELSE "kits")]
    ELSE IF unit # PyStr("fragments") THEN [amount |-> amount, unit |-> unit]
    ELSE [amount |-> RInt(0), unit |-> PyStr("")]

\* format_time_label, as the data it is formatted from
format_time_label(time_seconds) ==
    IF ~IsInt(time_seconds) THEN [n |-> 0, suffix |-> ""]
    ELSE LET secs == NumberToRat(time_seconds).n
         IN  IF secs % 3600 = 0 THEN [n |-> secs \div 3600, suffix |-> "h"]
             ELSE [n |-> secs, suffix |-> "s"]

\* lines 336-341: the area and the size label of an entry
SizeIsPair(size) ==
    /\ size.t = "tuple"
    /\ Len(size.items) = 2
    /\ \A k \in 1 .. 2 : IsInt(size.items[k])
EntryArea(entry) ==
    IF SizeIsPair(entry.size)
    THEN PyInt(NumberToRat(entry.size.items[1]).n * NumberToRat(entry.size.items[2]).n)
    ELSE None
EntrySizeLabel(entry) ==
    IF SizeIsPair(entry.size)
    THEN Str(NumberToRat(entry.size.items[1]).n) \o "x" \o Str(NumberToRat(entry.size.items[2]).n)
    ELSE "unknown"

\* line 343: entry.get("id") or entry.get("name")
BuildingId(entry) == IF Truthy(entry.id) THEN entry.id ELSE entry.name

\* the position of the bucket of building_id in a kit's buckets, 0 when absent
BucketIndex(buckets, building_id) ==
    IF \E k \in 1 .. Len(buckets) : buckets[k].key = building_id
    THEN CHOOSE k \in 1 .. Len(buckets) : buckets[k].key = building_id
    ELSE 0

\* lines 368-378: the bucket created by setdefault on the first contribution
NewBucket(entry) ==
    [key |-> BuildingId(entry),
     name |-> entry.name,
     size_label |-> EntrySizeLabel(entry),
     area |-> EntryArea(entry),
     street |-> entry.street,
     records |-> <<>>,
     expected |-> RInt(0),
     efficiency |-> None]

\* lines 379-388: the contribution of one reward added to its bucket
Contribute(bucket, reward) ==
    LET amount == AmountFloat(reward.amount)
        fragments == FragmentsOf(amount, reward.unit)
        expected_fragments == RMul(fragments, EffectiveProb(reward.drop_chance))
    IN  [bucket EXCEPT
            !.expected = RAdd(@, expected_fragments),
            !.records = Append(@, [fragments |-> fragments,
                                   source_note |-> SourceNote(amount, reward.unit),
                                   time_label |-> format_time_label(reward.option_time),
                                   probability |-> RecordedProb(reward.drop_chance),
                                   needs_motivation |-> reward.requires_motivation])]

\* lines 344-388: one iteration of the loop over an entry's rewards
AggregateReward(map, entry, reward) ==
    IF reward.kit_subtype \notin KitKeySet THEN map
    ELSE LET buckets == map[reward.kit_subtype]
             at == BucketIndex(buckets, BuildingId(entry))
         IN  IF at = 0
             THEN [map EXCEPT ![reward.kit_subtype] =
                      Append(buckets, Contribute(NewBucket(entry), reward))]
             ELSE [map EXCEPT ![reward.kit_subtype][at] = Contribute(buckets[at], reward)]

\* a plausible slip: the map outlives the call (a module-level dict)
FreshKitMapCarried(previous) == previous

\* line 333: the kit map a call starts from, given the map left by the call before
FreshKitMap(previous) == [key \in KitKeySet |-> <<>>]

\* line 395: expected / area if area else 0.0
Efficiency(bucket) ==
    IF Truthy(bucket.area) THEN RDiv(bucket.expected, RInt(bucket.area.i)) ELSE RInt(0)

\* line 398: the sort key (-efficiency, name) of a is less than that of b
\* a plausible slip: the minus sign is missing, the sort is ascending
KeyLessAscending(a, b) ==
    \/ RLt(a.efficiency.v, b.efficiency.v)
    \/ a.efficiency = b.efficiency /\ StrLess(a.name, b.name)
KeyLess(a, b) ==
    \/ RLt(RNeg(a.efficiency.v), RNeg(b.efficiency.v))
    \/ a.efficiency = b.efficiency /\ StrLess(a.name, b.name)

\* list.sort is stable: x goes before the first element whose key is greater
RECURSIVE InsertSorted(_, _)
InsertSorted(sorted, x) ==
    IF sorted = <<>> THEN <<x>>
    ELSE IF KeyLess(x, Head(sorted)) THEN <<x>> \o sorted
    ELSE <<Head(sorted)>> \o InsertSorted(Tail(sorted), x)

RECURSIVE SortRanked(_)
SortRanked(ranked) ==
    IF ranked = <<>> THEN <<>>
    ELSE InsertSorted(SortRanked(SubSeq(ranked, 1, Len(ranked) - 1)), ranked[Len(ranked)])

\* lines 390-400: the ranked list of one kit
RankKit(buckets) ==
    SortRanked([k \in 1 .. Len(buckets) |->
                   [buckets[k] EXCEPT !.efficiency = PyFloat(Efficiency(buckets[k]))]])

----------------------------------------------------------------------------
(* The resolver: iter_reward_products and walk_product. *)

DROP_KEYS == <<"dropChance", "drop_chance", "chance", "probability">>

\* a or b
PyOr(a, b) == IF Truthy(a) THEN a ELSE b

\* lines 140-144, 165-169, 191-195: the chance of the first recognised key the
\* node carries, normalized; None when it carries none
NodeDrop(node) ==
    LET present == {k \in 1 .. Len(DROP_KEYS) : HasKey(node, DROP_KEYS[k])}
    IN  IF present = {} THEN None
        ELSE normalize_probability(
                 node.d[DROP_KEYS[CHOOSE k \in present : \A m \in present : k <= m]])

\* the tuple yielded for a terminal reward (lines 129-130, 170-171, 175-176)
Leaf(reward, option_name, option_time, drop_chance, requires_motivation) ==
    [rid |-> IF IsStr(Get(reward, "id")) THEN Get(reward, "id") ELSE None,
     reward |-> reward,
     option_name |-> option_name,
     option_time |-> option_time,
     drop_chance |-> drop_chance,
     requires_motivation |-> requires_motivation]

\* a plausible slip: the candidate's chance is taken as it is written, a
\* percentage is not normalized
RECURSIVE ChestLeavesUnnormalized(_, _, _, _)
ChestLeavesUnnormalized(possibles, option_name, option_time, requires_motivation) ==
    IF possibles = <<>> THEN <<>>
    ELSE LET candidate == Head(possibles)
             rest == ChestLeavesUnnormalized(Tail(possibles), option_name, option_time,
                                             requires_motivation)
             present == {k \in 1 .. Len(DROP_KEYS) : HasKey(candidate, DROP_KEYS[k])}
             raw == IF present = {} THEN None
                    ELSE _as_float(candidate.d[DROP_KEYS[CHOOSE k \in present :
                                                            \A m \in present : k <= m]])
         IN  IF ~IsDict(candidate) THEN rest
             ELSE IF ~IsDict(Get(candidate, "reward")) THEN rest
             ELSE <<Leaf(Get(candidate, "reward"), option_name, option_time,
                         raw, requires_motivation)>> \o rest

\* lines 159-171: the leaves of a chest's candidates
RECURSIVE ChestLeaves(_, _, _, _)
ChestLeaves(possibles, option_name, option_time, requires_motivation) ==
    IF possibles = <<>> THEN <<>>
    ELSE LET candidate == Head(possibles)
             rest == ChestLeaves(Tail(possibles), option_name, option_time, requires_motivation)
         IN  IF ~IsDict(candidate) THEN rest
             ELSE IF ~IsDict(Get(candidate, "reward")) THEN rest
             ELSE <<Leaf(Get(candidate, "reward"), option_name, option_time,
                         NodeDrop(candidate), requires_motivation)>> \o rest

\* a plausible slip: the chance of the sub-product is multiplied with the
\* inherited chance
NestedDropMultiplied(nested_drop, drop_chance) ==
    IF nested_drop = None THEN drop_chance
    ELSE IF drop_chance = None THEN nested_drop
    ELSE PyFloat(RMul(nested_drop.v, drop_chance.v))

\* line 151: nested_drop if nested_drop is not None else drop_chance
NestedDrop(nested_drop, drop_chance) ==
    IF nested_drop # None THEN nested_drop ELSE drop_chance

RECURSIVE walk_product(_, _, _, _, _)
RECURSIVE WalkSubProducts(_, _, _, _, _)

\* lines 136-153: the loop over the sub-products of a random node
WalkSubProducts(sub_products, option_name, option_time, drop_chance, requires_motivation) ==
    IF sub_products = <<>> THEN <<>>
    ELSE LET sub == Head(sub_products)
             rest == WalkSubProducts(Tail(sub_products), option_name, option_time,
                                     drop_chance, requires_motivation)
         IN  IF ~IsDict(sub) THEN rest
             ELSE LET nested == PyOr(Get(sub, "product"), Get(sub, "reward"))
                      nested_drop == NodeDrop(sub)
                      nested_requires ==
                          requires_motivation \/ Truthy(Get(sub, "onlyWhenMotivated"))
                  IN  IF IsDict(nested)
                      THEN walk_product(nested, option_name, option_time,
                                        NestedDrop(nested_drop, drop_chance),
                                        nested_requires) \o rest
                      ELSE rest

\* lines 116-176
walk_product(product, option_name, option_time, drop_chance, requires_motivation) ==
    IF ~IsDict(product) THEN <<>>
    ELSE LET ptype == Get(product, "type")
             reward_dict == IF IsDict(Get(product, "reward")) THEN Get(product, "reward")
                            ELSE None
         IN  IF ptype = PyStr("genericReward") /\ Truthy(reward_dict)
             THEN <<Leaf(reward_dict, option_name, option_time, drop_chance,
                         requires_motivation)>>
             ELSE IF ptype = PyStr("random")
             THEN LET sub_products == GetOr(product, "products", PyList(<<>>))
                  IN  IF IsList(sub_products)
                      THEN WalkSubProducts(sub_products.items, option_name, option_time,
                                           drop_chance, requires_motivation)
                      ELSE <<>>
             ELSE IF ptype = PyStr("chest")
             THEN LET possibles == PyOr(Get(product, "possible_rewards"),
                                        Get(product, "possibleRewards"))
                  IN  IF IsList(possibles)
                      THEN ChestLeaves(possibles.items, option_name, option_time,
                                       requires_motivation)
                      ELSE <<>>
             ELSE IF Truthy(reward_dict)
             THEN <<Leaf(reward_dict, option_name, option_time, drop_chance,
                         requires_motivation)>>
             ELSE <<>>

\* lines 187-196: the loop over the products of an option
RECURSIVE WalkProducts(_, _, _, _)
WalkProducts(products, option_name, option_time, option_requires) ==
    IF products = <<>> THEN <<>>
    ELSE LET product == Head(products)
             rest == WalkProducts(Tail(products), option_name, option_time, option_requires)
         IN  IF ~IsDict(product) THEN rest
             ELSE walk_product(product, option_name, option_time, NodeDrop(product),
                               option_requires \/ Truthy(Get(product, "onlyWhenMotivated")))
                  \o rest

\* lines 178-196: the loop over the options
RECURSIVE WalkOptions(_)
WalkOptions(options) ==
    IF options = <<>> THEN <<>>
    ELSE LET option == Head(options)
             rest == WalkOptions(Tail(options))
         IN  IF ~IsDict(option) THEN rest
             ELSE LET products == GetOr(option, "products", PyList(<<>>))
                  IN  IF ~IsList(products) THEN rest
                      ELSE WalkProducts(products.items, Get(option, "name"),
                                        Get(option, "time"),
                                        Truthy(Get(option, "onlyWhenMotivated"))) \o rest

\* lines 106-196: the sequence of tuples the generator yields
iter_reward_products(component) ==
    LET production == Get(component, "production")
    IN  IF ~IsDict(production) THEN <<>>
        ELSE LET options == Get(production, "options")
             IN  IF ~IsList(options) THEN <<>> ELSE WalkOptions(options.items)

----------------------------------------------------------------------------
(* The classifier: reward_lookup and parse_reward_entry. *)

\* lines 72-79: the dict built from a list of rewards (a later entry with the
\* same id replaces an earlier one)
LookupFromList(rewards) ==
    LET usable == {k \in 1 .. Len(rewards) :
                      IsDict(rewards[k]) /\ IsStr(Get(rewards[k], "id"))}
        ids == {Get(rewards[k], "id").s : k \in usable}
        Last(id) == CHOOSE k \in usable :
                        /\ Get(rewards[k], "id").s = id
                        /\ \A m \in usable : Get(rewards[m], "id").s = id => m <= k
    IN  PyDict([id \in ids |-> rewards[Last(id)]])

\* lines 65-80
reward_lookup(component) ==
    LET lookup == Get(component, "lookup")
    IN  IF ~IsDict(lookup) THEN EmptyDict
        ELSE LET rewards == Get(lookup, "rewards")
             IN  IF IsDict(rewards) THEN rewards
                 ELSE IF IsList(rewards) THEN LookupFromList(rewards.items)
                 ELSE EmptyDict

\* a plausible slip: the inline payload comes first, the table is consulted
\* only when there is none (fallback or lookup.get(reward_id))
LookupGetInlineFirst(lookup, reward_id, fallback) ==
    IF Truthy(fallback) THEN fallback
    ELSE IF IsStr(reward_id) /\ HasKey(lookup, reward_id.s) THEN lookup.d[reward_id.s]
    ELSE None

\* line 280: lookup.get(reward_id, fallback)
LookupGet(lookup, reward_id, fallback) ==
    IF IsStr(reward_id) /\ HasKey(lookup, reward_id.s) THEN lookup.d[reward_id.s]
    ELSE fallback

\* a value can be looked up in a dict (lists and dicts are unhashable)
Hashable(value) == value.t \notin {"list", "dict"}

\* value in TARGET_KIT_SUBTYPES, for a hashable value
IsTargetKit(value) == IsStr(value) /\ value.s \in KitKeySet

\* parse_reward_entry: the exception raised by a membership test on an
\* unhashable subtype (lines 36, 44, 53), "" when none
ParseError(entry) ==
    IF ~IsDict(entry) THEN ""
    ELSE LET subtype == Get(entry, "subType")
             assembled == Get(entry, "assembledReward")
         IN  IF subtype = PyStr("fragment") /\ IsDict(assembled)
             THEN (IF Hashable(Get(assembled, "subType")) THEN "" ELSE "TypeError")
             ELSE IF ~Hashable(subtype) THEN "TypeError"
             ELSE IF IsTargetKit(subtype) THEN ""
             ELSE IF IsDict(assembled) /\ ~Hashable(Get(assembled, "subType"))
             THEN "TypeError"
             ELSE ""

\* the dicts parse_reward_entry returns
ParsedReward(kit_sub, entry, unit, default_name) ==
    [kit_subtype |-> kit_sub.s,
     kit_label |-> KitLabel(kit_sub.s),
     amount |-> GetOr(entry, "amount", PyInt(0)),
     unit |-> unit,
     name |-> GetOr(entry, "name", PyStr(default_name))]

\* a plausible slip: the wrapper rule (line 53) is tried before the rule for a
\* payload that is a kit itself (line 44)
parse_reward_entry_wrapper_first(entry) ==
    IF ~IsDict(entry) THEN None
    ELSE LET subtype == Get(entry, "subType")
             assembled == Get(entry, "assembledReward")
             wrapped == IF IsDict(assembled) THEN Get(assembled, "subType") ELSE None
         IN  IF subtype = PyStr("fragment") /\ IsDict(assembled) /\ IsTargetKit(wrapped)
             THEN ParsedReward(wrapped, entry, PyStr("fragments"),
                               "Fragments of " \o KitLabel(wrapped.s))
             ELSE IF IsDict(assembled) /\ IsTargetKit(wrapped)
             THEN ParsedReward(wrapped, entry, GetOr(entry, "subType", PyStr("items")),
                               KitLabel(wrapped.s))
             ELSE IF IsTargetKit(subtype)
             THEN ParsedReward(subtype, entry, PyStr("kits"), KitLabel(subtype.s))
             ELSE None

\* lines 28-62, when no exception is raised
parse_reward_entry(entry) ==
    IF ~IsDict(entry) THEN None
    ELSE LET subtype == Get(entry, "subType")
             assembled == Get(entry, "assembledReward")
             wrapped == IF IsDict(assembled) THEN Get(assembled, "subType") ELSE None
         IN  IF subtype = PyStr("fragment") /\ IsDict(assembled) /\ IsTargetKit(wrapped)
             THEN ParsedReward(wrapped, entry, PyStr("fragments"),
                               "Fragments of " \o KitLabel(wrapped.s))
             ELSE IF ~(subtype = PyStr("fragment") /\ IsDict(assembled))
                     /\ IsTargetKit(subtype)
             THEN ParsedReward(subtype, entry, PyStr("kits"), KitLabel(subtype.s))
             ELSE IF IsDict(assembled) /\ IsTargetKit(wrapped)
             THEN ParsedReward(wrapped, entry, GetOr(entry, "subType", PyStr("items")),
                               KitLabel(wrapped.s))
             ELSE None

----------------------------------------------------------------------------
(* main: the loop over the entities. *)

\* --era
Era == "VirtualFuture"

\* lines 199-216
extract_size(entity) ==
    LET components == Get(entity, "components")
        all_age == IF IsDict(components) THEN Get(components, "AllAge") ELSE None
        placement == IF IsDict(all_age) THEN Get(all_age, "placement") ELSE None
        size == IF IsDict(placement) THEN Get(placement, "size") ELSE None
    IN  IF IsDict(size) /\ IsInt(Get(size, "x")) /\ IsInt(Get(size, "y"))
        THEN PyTuple(<<Get(size, "x"), Get(size, "y")>>)
        ELSE IF IsInt(Get(entity, "width")) /\ IsInt(Get(entity, "length"))
        THEN PyTuple(<<Get(entity, "width"), Get(entity, "length")>>)
        ELSE None

\* lines 220-228
ParseStreet(req_obj) ==
    IF IsDict(req_obj) /\ IsInt(Get(req_obj, "requiredLevel"))
    THEN Get(req_obj, "requiredLevel")
    ELSE IF IsDict(req_obj) /\ IsInt(Get(req_obj, "street_connection_level"))
    THEN Get(req_obj, "street_connection_level")
    ELSE IF IsInt(req_obj) THEN req_obj
    ELSE None

\* lines 219-245
extract_street_requirement(entity, component) ==
    LET components == Get(entity, "components")
        all_age == IF IsDict(components) THEN Get(components, "AllAge") ELSE None
        first == IF IsDict(all_age)
                 THEN ParseStreet(Get(all_age, "streetConnectionRequirement")) ELSE None
        second == ParseStreet(Get(component, "streetConnectionRequirement"))
        requirements == Get(entity, "requirements")
        third == IF IsDict(requirements)
                 THEN ParseStreet(Get(requirements, "street_connection_level")) ELSE None
    IN  IF first # None THEN first
        ELSE IF second # None THEN second
        ELSE third

\* lines 270-275: the era component of an entity, None when the entity is skipped
EraComponent(entity) ==
    IF ~IsDict(entity) THEN None
    ELSE LET components == Get(entity, "components")
         IN  IF ~IsDict(components) THEN None
             ELSE IF IsDict(Get(components, Era)) THEN Get(components, Era) ELSE None

\* lines 279-280: the payloads handed to parse_reward_entry, one per leaf
RewardEntries(era_component) ==
    LET leaves == iter_reward_products(era_component)
        lookup == reward_lookup(era_component)
    IN  [k \in 1 .. Len(leaves) |-> LookupGet(lookup, leaves[k].rid, leaves[k].reward)]

\* lines 281-289: the classified reward of one leaf
Classify(leaf, reward_entry) ==
    LET parsed == parse_reward_entry(reward_entry)
    IN  [kit_subtype |-> parsed.kit_subtype,
         kit_label |-> parsed.kit_label,
         amount |-> parsed.amount,
         unit |-> parsed.unit,
         name |-> parsed.name,
         option_name |-> leaf.option_name,
         option_time |-> leaf.option_time,
         reward_id |-> PyOr(leaf.rid, Get(reward_entry, "id")),
         drop_chance |-> leaf.drop_chance,
         requires_motivation |-> leaf.requires_motivation]

\* lines 278-289: era_rewards, when no payload raises
RECURSIVE ClassifyAll(_, _)
ClassifyAll(leaves, reward_entries) ==
    IF leaves = <<>> THEN <<>>
    ELSE LET rest == ClassifyAll(Tail(leaves), Tail(reward_entries))
         IN  IF parse_reward_entry(Head(reward_entries)) = None THEN rest
             ELSE <<Classify(Head(leaves), Head(reward_entries))>> \o rest

EraRewards(era_component) ==
    ClassifyAll(iter_reward_products(era_component), RewardEntries(era_component))

\* the exception raised while the entity's leaves are classified, "" when none
EntityError(era_component) ==
    LET reward_entries == RewardEntries(era_component)
        failing == {k \in 1 .. Len(reward_entries) : ParseError(reward_entries[k]) # ""}
    IN  IF failing = {} THEN ""
        ELSE ParseError(reward_entries[CHOOSE k \in failing : \A m \in failing : k <= m])

\* lines 294-302: the entry appended to matches
MatchEntry(entity, era_component) ==
    [id |-> Get(entity, "id"),
     name |-> GetOr(entity, "name", Get(entity, "id")),
     size |-> extract_size(entity),
     street |-> extract_street_requirement(entity, era_component),
     rewards |-> EraRewards(era_component)]

----------------------------------------------------------------------------
(* Inputs. *)

ChanceInputs ==
    {PyInt(i) : i \in (0 - MaxChanceInt) .. (100 + MaxChanceInt)}
    \cup {PyFloat(Rat(k, ChanceDen)) : k \in (0 - ChanceDen) .. (2 * ChanceDen)}
    \cup {PyStr(s) : s \in {"0.5", "1", "50", "250", "-1", "abc", ""}}
    \cup {None, PyBool(TRUE), PyBool(FALSE), PyList(<<>>), EmptyDict}

ProbIdle == /\ pvalue = None /\ presult = None /\ peffective = RInt(1) /\ ppc = "idle"
ColIdle  == /\ col_input = 0 /\ col_name = <<>> /\ col_pc = "idle"

\* the rows of a sheet: row r has lens[r] cells; the first cell of a data row
\* is a number (the rank), the others are text
SheetRow(r, len) ==
    [c \in 1 .. len |-> IF c = 1 /\ r > 1 THEN cell(PyInt(r - 1), "number")
                        ELSE cell(PyStr("R&D"), "string")]
SheetRows(lens) == [r \in 1 .. Len(lens) |-> SheetRow(r, lens[r])]

\* the lists of row lengths tried for one sheet
RowLengths ==
    UNION {[1 .. n -> {MaxCells, MaxCells - 1}] : n \in 0 .. MaxRows}

SheetNames == <<"One Up Kit", "Renovation Kit", "Sheet">>
SheetName(k) == IF k <= 2 THEN SheetNames[k] ELSE SheetNames[3] \o Str(k)

\* the `sheets` arguments tried
SheetInputs ==
    UNION {{[k \in 1 .. n |-> [name |-> SheetName(k), rows |-> SheetRows(lens[k])]] :
               lens \in [1 .. n -> RowLengths]} : n \in 0 .. MaxSheets}

\* a classified reward as main builds it (lines 281-289)
ClassifiedReward(kit, unit, amount, drop) ==
    [kit_subtype |-> kit, kit_label |-> KitLabel(kit), amount |-> amount, unit |-> unit,
     name |-> PyStr(KitLabel(kit)), option_name |-> PyStr("daily"),
     option_time |-> PyInt(3600), reward_id |-> None, drop_chance |-> drop,
     requires_motivation |-> FALSE]

\* the reward lists tried for one entry: both kits, the three kinds of unit,
\* with and without a drop chance, equal totals from different rewards, and an
\* expected total of zero
RewardLists ==
    { << ClassifiedReward("one_up_kit", PyStr("kits"), PyInt(1), None),
         ClassifiedReward("renovation_kit", PyStr("chest"), PyInt(2), None) >>,
      << ClassifiedReward("one_up_kit", PyStr("fragments"), PyInt(30), PyFloat(Rat(1, 2))),
         ClassifiedReward("one_up_kit", PyStr("kits"), PyInt(1), PyFloat(Rat(1, 2))) >>,
      << ClassifiedReward("one_up_kit", PyStr("fragments"), PyInt(0), None),
         ClassifiedReward("renovation_kit", PyStr("kits"), PyInt(2), PyFloat(Rat(1, 10))) >> }

\* the entries of matches tried (lines 294-302): the id may be missing, the
\* footprint may be unknown
MatchEntries ==
    { [id |-> id, name |-> PyStr(name), size |-> size, street |-> PyInt(1), rewards |-> rewards] :
        id \in {PyStr("b1"), None},
        name \in {"Zoo", "arena"},
        size \in {None, PyTuple(<<PyInt(1), PyInt(2)>>)},
        rewards \in RewardLists }

MatchInputs == UNION {[1 .. n -> MatchEntries] : n \in 0 .. MaxMatches}

EmptyKitMap == [key \in KitKeySet |-> <<>>]

AggIdle ==
    /\ a_matches = <<>> /\ kit_map = EmptyKitMap /\ a_i = 0 /\ a_j = 0 /\ a_pc = "idle"
    /\ a_error = "" /\ a_reports = EmptyKitMap /\ a_first = EmptyKitMap /\ a_run = 0

\* building blocks of the input document
Payload(subtype, amount) == PyDict([subType |-> subtype, amount |-> amount])
GenericReward(reward) == PyDict([type |-> PyStr("genericReward"), reward |-> reward])
ProductionOption(products) ==
    PyDict([name |-> PyStr("daily"), time |-> PyInt(3600), products |-> products])
EraData(options) == PyDict([production |-> PyDict([options |-> PyList(options)])])

OneUpKit == GenericReward(Payload(PyStr("one_up_kit"), PyInt(1)))
Coins    == GenericReward(Payload(PyStr("coins"), PyInt(100)))

\* a chest of two candidates: 5 fragments of a renovation kit at chance 10, and
\* a candidate that is no kit
RenovationChest ==
    PyDict([type |-> PyStr("chest"),
            possible_rewards |-> PyList(<<
                PyDict([reward |-> PyDict([subType |-> PyStr("fragment"), amount |-> PyInt(5),
                                           assembledReward |->
                                               PyDict([subType |-> PyStr("renovation_kit")])]),
                        chance |-> PyInt(10)]),
                PyDict([reward |-> Payload(PyStr("coins"), PyInt(100)),
                        chance |-> PyInt(90)]) >>)])

\* the productions tried for one entity: the list of options of its era data
Productions ==
    [ kit       |-> << ProductionOption(PyList(<<OneUpKit>>)) >>,
      nothing   |-> << ProductionOption(PyList(<<Coins>>)) >>,
      chest     |-> << ProductionOption(PyList(<<RenovationChest, OneUpKit>>)) >>,
      \* nodes of unexpected shape beside a well-formed one: an option that is
      \* no dict, products that are no list, a product that is no dict, a
      \* reward that is no dict, a subtype that is a number
      tolerated |-> << PyStr("junk"),
                       ProductionOption(PyStr("junk")),
                       ProductionOption(PyList(<<
                           PyStr("junk"),
                           GenericReward(PyStr("junk")),
                           GenericReward(Payload(PyInt(7), PyInt(1))),
                           OneUpKit >>)) >>,
      \* a subtype that is a list, beside a well-formed sibling
      listSubtype |-> << ProductionOption(PyList(<<
                           GenericReward(Payload(PyList(<<PyStr("one_up_kit")>>), PyInt(1))),
                           OneUpKit >>)) >>,
      \* an amount that is no number, beside a well-formed sibling
      textAmount |-> << ProductionOption(PyList(<<
                           GenericReward(Payload(PyStr("one_up_kit"), PyStr("many"))),
                           OneUpKit >>)) >> ]

\* the entities tried: with or without an id, and either without data for the
\* era or with one of the productions
EntityInputs ==
    LET Identity == { [name |-> PyStr("Zoo")],
                      [name |-> PyStr("arena")],
                      [id |-> PyStr("b1"), name |-> PyStr("Zoo")],
                      [id |-> PyStr("b2"), name |-> PyStr("arena")] }
        Footprint == [width |-> PyInt(4), length |-> PyInt(4)]
        ComponentsTried ==
            {[AllAge |-> EmptyDict]}
            \cup {[VirtualFuture |-> EraData(Productions[p])] : p \in DOMAIN Productions}
    IN  { PyDict(ident @@ Footprint @@ [components |-> PyDict(comps)]) :
            ident \in Identity, comps \in ComponentsTried }

MainIdle == /\ entities = <<>> /\ m_i = 0 /\ m_pc = "idle" /\ m_error = ""

XlsxIdle ==
    /\ x_sheets = <<>> /\ x_zf = <<>> /\ x_file = "absent" /\ x_pc = "idle" /\ x_step = 0

EraIdle ==
    /\ er_component = None /\ er_lookup = None /\ er_pos = 0 /\ er_leaf = None
    /\ er_entry = None
    /\ er_parsed = None /\ er_rewards = <<>> /\ er_pc = "idle" /\ er_error = ""

ParseIdle == /\ pr_entry = None /\ pr_result = None /\ pr_pc = "idle" /\ pr_error = ""

----------------------------------------------------------------------------
(* Inputs of the per-entity loop: era components.                           *)

\* a dict with one more key
WithKey(dict, key, value) == PyDict((key :> value) @@ dict.d)

Flagged(node) == WithKey(node, "onlyWhenMotivated", PyBool(TRUE))
WithChance(node, key, value) == WithKey(node, key, value)

KitPayload == Payload(PyStr("one_up_kit"), PyInt(1))
CoinsPayload == Payload(PyStr("coins"), PyInt(100))
\* amount fragments of a renovation kit
FragmentPayload(amount) ==
    PyDict([subType |-> PyStr("fragment"), amount |-> amount,
            assembledReward |-> PyDict([subType |-> PyStr("renovation_kit")])])

\* a product of a type that is none of genericReward, random, chest
PlainProduct(reward) == PyDict([type |-> PyStr("goods"), reward |-> reward])
RandomOf(sub_products) == PyDict([type |-> PyStr("random"), products |-> PyList(sub_products)])
SubProduct(nested) == PyDict([product |-> nested])
ChestOf(candidates) ==
    PyDict([type |-> PyStr("chest"), possible_rewards |-> PyList(candidates)])
Candidate(reward) == PyDict([reward |-> reward])

\* the chance written on a top-level product, on a sub-product at a given
\* depth, and on a chest candidate
ProductChance == PyInt(50)
SubChance(depth) == PyInt(20 + 10 * depth)
CandidateChance == PyInt(10)

\* the products without sub-products tried: each emits one leaf
TerminalProducts ==
    LET plain == { OneUpKit,
                   PlainProduct(KitPayload),
                   ChestOf(<<Candidate(KitPayload)>>),
                   ChestOf(<<WithChance(Candidate(KitPayload), "chance", CandidateChance)>>) }
    IN  plain \cup {Flagged(node) : node \in plain}

\* the ways a random node wraps a nested product into a sub-product
SubProductsOf(nested, depth) ==
    LET sub == SubProduct(nested)
        chanced == WithChance(sub, "dropChance", SubChance(depth))
    IN  {sub, chanced, Flagged(sub), Flagged(chanced)}

\* the products tried with random nodes nested up to `depth` deep
RECURSIVE NestedProducts(_)
NestedProducts(depth) ==
    IF depth = 0 THEN TerminalProducts
    ELSE LET below == NestedProducts(depth - 1)
         IN  below \cup {RandomOf(<<sub>>) : sub \in UNION {SubProductsOf(nested, depth) :
                                                              nested \in below}}

\* era data of one option with the given products
OneOption(products, flagged) ==
    LET option == ProductionOption(PyList(products))
    IN  EraData(<< IF flagged THEN Flagged(option) ELSE option >>)

\* era components that vary the chance and the motivation flag along one path
PathInputs ==
    LET Tops == UNION {{node, Flagged(node), WithChance(node, "chance", ProductChance),
                        Flagged(WithChance(node, "chance", ProductChance))} :
                          node \in NestedProducts(MaxNesting)}
    IN  {OneOption(<<top>>, flagged) : top \in Tops, flagged \in BOOLEAN}

\* an era component with sibling options, products and sub-products
SiblingInput ==
    EraData(<< Flagged(ProductionOption(PyList(<<
                   WithChance(OneUpKit, "chance", ProductChance),
                   RandomOf(<< WithChance(SubProduct(OneUpKit), "chance", SubChance(1)),
                               PyStr("junk"),
                               Flagged(SubProduct(PlainProduct(KitPayload))) >>) >>))),
               ProductionOption(PyList(<<OneUpKit>>)) >>)

\* lookup tables: a mapping from id to payload, and the same as a flat list.
\* r1 is a kit, r2 is no kit, r3 is no payload
LookupTables ==
    LET r1 == WithKey(FragmentPayload(PyInt(3)), "id", PyStr("r1"))
        r2 == WithKey(CoinsPayload, "id", PyStr("r2"))
    IN  { PyDict([rewards |-> PyDict([r1 |-> r1, r2 |-> r2, r3 |-> PyStr("junk")])]),
          PyDict([rewards |-> PyList(<<r1, PyStr("junk"), CoinsPayload, r2>>)]) }

\* an era component with or without a lookup table
WithLookups(component) ==
    {component} \cup {WithKey(component, "lookup", table) : table \in LookupTables}

\* inline payloads: a kit or no kit, without id, with an id of the table, with
\* an id unknown to the table, with an id that is no string
InlinePayloads ==
    LET ids == {PyStr("r1"), PyStr("r2"), PyStr("r3"), PyStr("r9"), PyInt(7)}
    IN  {KitPayload, CoinsPayload}
        \cup {WithKey(payload, "id", id) : payload \in {KitPayload, CoinsPayload}, id \in ids}

LookupInputs ==
    UNION {WithLookups(OneOption(<<GenericReward(payload)>>, FALSE)) :
              payload \in InlinePayloads}

\* the candidates of a chest tried: a kit fragment, no kit, a kit without
\* chance, a reward that is no mapping, a reward resolved by the lookup table,
\* a candidate that is no mapping
ChestCandidates ==
    { WithChance(Candidate(FragmentPayload(PyInt(5))), "chance", CandidateChance),
      WithChance(Candidate(CoinsPayload), "chance", PyInt(90)),
      Candidate(KitPayload),
      WithChance(Candidate(PyStr("junk")), "chance", CandidateChance),
      WithChance(Candidate(WithKey(CoinsPayload, "id", PyStr("r1"))),
                 "dropChance", PyFloat(Rat(1, 4))),
      PyStr("junk") }

ChestInputs ==
    UNION {WithLookups(OneOption(<<chest>>, FALSE)) :
              chest \in UNION {{ChestOf(candidates),
                                WithChance(ChestOf(candidates), "chance", ProductChance)} :
                                  candidates \in UNION {[1 .. n -> ChestCandidates] :
                                                           n \in 0 .. MaxCandidates}}}

\* with one era component whose first payload makes parse_reward_entry raise
EraInputs ==
    PathInputs \cup {SiblingInput, EraData(Productions.listSubtype)}
    \cup LookupInputs \cup ChestInputs

\* the payloads handed to parse_reward_entry: every combination of a subtype,
\* a wrapped reward, an amount and a name, each present or absent, and values
\* that are no mapping
PayloadInputs ==
    LET Subtypes == {PyStr("fragment"), PyStr("one_up_kit"), PyStr("renovation_kit"),
                     PyStr("coins"), None, PyInt(7), PyList(<<PyStr("one_up_kit")>>)}
        Wrapped == {PyStr("junk"), EmptyDict,
                    PyDict([subType |-> PyStr("one_up_kit")]),
                    PyDict([subType |-> PyStr("renovation_kit")]),
                    PyDict([subType |-> PyStr("coins")]),
                    PyDict([subType |-> PyList(<<PyStr("one_up_kit")>>)])}
        Choices(key, values) == {EmptyDict} \cup {PyDict((key :> v)) : v \in values}
    IN  { PyDict(a.d @@ b.d @@ c.d @@ d.d) :
            a \in Choices("subType", Subtypes),
            b \in Choices("assembledReward", Wrapped),
            c \in Choices("amount", {PyInt(5)}),
            d \in Choices("name", {PyStr("Gift")}) }
        \cup {None, PyStr("junk"), PyList(<<>>)}

----------------------------------------------------------------------------
(* The probability steps: a chance value read from the input is normalized  *)
(* by the resolver, carried as drop_chance, and turned into the effective   *)
(* probability by the aggregator.                                           *)

InitProb ==
    /\ mode = "prob"
    /\ pvalue \in ChanceInputs
    /\ presult = None
    /\ peffective = RInt(1)
    /\ ppc = "normalize"
    /\ ColIdle
    /\ XlsxIdle
    /\ AggIdle
    /\ MainIdle
    /\ EraIdle
    /\ ParseIdle

NormalizeProbability ==
    /\ mode = "prob"
    /\ ppc = "normalize"
    /\ presult' = normalize_probability(pvalue)
    /\ ppc' = "aggregate"
    /\ UNCHANGED <<mode, pvalue, peffective, colVars, xlsxVars, aggVars, mainVars,
                   eraVars, parseVars>>

AggregateProbability ==
    /\ mode = "prob"
    /\ ppc = "aggregate"
    /\ peffective' = EffectiveProb(presult)
    /\ ppc' = "done"
    /\ UNCHANGED <<mode, pvalue, presult, colVars, xlsxVars, aggVars, mainVars,
                   eraVars, parseVars>>

NextProb == NormalizeProbability \/ AggregateProbability

SpecProb == InitProb /\ [][NextProb]_vars

----------------------------------------------------------------------------
(* column_name applied to an index.                                         *)

InitCol ==
    /\ mode = "col"
    /\ col_input \in 0 .. MaxColumn
    /\ col_name = <<>>
    /\ col_pc = "call"
    /\ ProbIdle
    /\ XlsxIdle
    /\ AggIdle
    /\ MainIdle
    /\ EraIdle
    /\ ParseIdle

CallColumnName ==
    /\ mode = "col"
    /\ col_pc = "call"
    /\ col_name' = column_name(col_input)
    /\ col_pc' = "done"
    /\ UNCHANGED <<mode, col_input, probVars, xlsxVars, aggVars, mainVars,
                   eraVars, parseVars>>

NextCol == CallColumnName

SpecCol == InitCol /\ [][NextCol]_vars

----------------------------------------------------------------------------
(* create_xlsx: open the archive, write the fixed parts, write one worksheet *)
(* part per sheet, close the archive.                                        *)

InitXlsx ==
    /\ mode = "xlsx"
    /\ x_sheets \in SheetInputs
    /\ x_zf = <<>>
    /\ x_file = "absent"
    /\ x_pc = "start"
    /\ x_step = 1
    /\ ProbIdle
    /\ ColIdle
    /\ AggIdle
    /\ MainIdle
    /\ EraIdle
    /\ ParseIdle

\* line 555: ZipFile(path, "w", ZIP_DEFLATED) creates the file
XlsxOpen ==
    /\ mode = "xlsx"
    /\ x_pc = "start"
    /\ x_file' = "open"
    /\ x_pc' = "fixed"
    /\ UNCHANGED <<mode, x_sheets, x_zf, x_step, probVars, colVars, aggVars, mainVars,
                   eraVars, parseVars>>

\* lines 556-562: one zf.writestr of a fixed part
XlsxWriteFixed ==
    /\ mode = "xlsx"
    /\ x_pc = "fixed"
    /\ x_zf' = Append(x_zf, FixedParts(x_sheets, Timestamp)[x_step])
    /\ IF x_step < Len(FixedParts(x_sheets, Timestamp))
       THEN x_step' = x_step + 1 /\ x_pc' = x_pc
       ELSE x_step' = 1 /\ x_pc' = "sheets"
    /\ UNCHANGED <<mode, x_sheets, x_file, probVars, colVars, aggVars, mainVars,
                   eraVars, parseVars>>

\* lines 564-566: one iteration of the loop over the sheets
XlsxWriteSheet ==
    /\ mode = "xlsx"
    /\ x_pc = "sheets"
    /\ x_step <= Len(x_sheets)
    /\ x_zf' = Append(x_zf, [name |-> "xl/worksheets/sheet" \o Str(x_step) \o ".xml",
                              data |-> build_sheet_xml(x_sheets[x_step].rows)])
    /\ x_step' = x_step + 1
    /\ UNCHANGED <<mode, x_sheets, x_file, x_pc, probVars, colVars, aggVars, mainVars,
                   eraVars, parseVars>>

\* the end of the with block: the archive is closed
XlsxClose ==
    /\ mode = "xlsx"
    /\ x_pc = "sheets"
    /\ x_step > Len(x_sheets)
    /\ x_file' = "closed"
    /\ x_pc' = "done"
    /\ UNCHANGED <<mode, x_sheets, x_zf, x_step, probVars, colVars, aggVars, mainVars,
                   eraVars, parseVars>>

NextXlsx == XlsxOpen \/ XlsxWriteFixed \/ XlsxWriteSheet \/ XlsxClose

SpecXlsx == InitXlsx /\ [][NextXlsx]_vars

----------------------------------------------------------------------------
(* aggregate_kit_reports, called twice on the same list of matches.          *)

InitAgg ==
    /\ mode = "agg"
    /\ a_matches \in MatchInputs
    /\ kit_map = EmptyKitMap
    /\ a_i = 0
    /\ a_j = 0
    /\ a_pc = "call"
    /\ a_error = ""
    /\ a_reports = EmptyKitMap
    /\ a_first = EmptyKitMap
    /\ a_run = 1
    /\ ProbIdle
    /\ ColIdle
    /\ XlsxIdle
    /\ EraIdle
    /\ ParseIdle
    /\ MainIdle
    /\ EraIdle
    /\ ParseIdle

\* line 333: the call starts with an empty bucket map per kit
AggCall ==
    /\ a_pc = "call"
    /\ kit_map' = FreshKitMap(kit_map)
    /\ a_i' = 1
    /\ a_j' = 1
    /\ a_pc' = "loop"
    /\ UNCHANGED <<mode, a_matches, a_error, a_reports, a_first, a_run,
                   probVars, colVars, xlsxVars, mainVars,
                   eraVars, parseVars>>

\* lines 344-388: one reward of the current entry; float() may raise
AggReward ==
    /\ a_pc = "loop"
    /\ a_i <= Len(a_matches)
    /\ a_j <= Len(a_matches[a_i].rewards)
    /\ LET entry == a_matches[a_i]
           reward == entry.rewards[a_j]
           failure == IF reward.kit_subtype \in KitKeySet
                      THEN AmountError(reward.amount) ELSE ""
       IN  IF failure # ""
           THEN /\ a_error' = failure
                /\ a_pc' = "raised"
                /\ UNCHANGED <<kit_map, a_j>>
           ELSE /\ kit_map' = AggregateReward(kit_map, entry, reward)
                /\ a_j' = a_j + 1
                /\ UNCHANGED <<a_error, a_pc>>
    /\ UNCHANGED <<mode, a_matches, a_i, a_reports, a_first, a_run,
                   probVars, colVars, xlsxVars, mainVars,
                   eraVars, parseVars>>

\* line 335: the loop moves on to the next entry
AggNextEntry ==
    /\ a_pc = "loop"
    /\ a_i <= Len(a_matches)
    /\ a_j > Len(a_matches[a_i].rewards)
    /\ a_i' = a_i + 1
    /\ a_j' = 1
    /\ UNCHANGED <<mode, a_matches, kit_map, a_pc, a_error, a_reports, a_first, a_run,
                   probVars, colVars, xlsxVars, mainVars,
                   eraVars, parseVars>>

\* lines 390-400: efficiency and ranking per kit, and the return
AggRank ==
    /\ a_pc = "loop"
    /\ a_i > Len(a_matches)
    /\ a_reports' = [key \in KitKeySet |-> RankKit(kit_map[key])]
    /\ kit_map' = [key \in KitKeySet |->
                      [k \in 1 .. Len(kit_map[key]) |->
                          [kit_map[key][k] EXCEPT
                              !.efficiency = PyFloat(Efficiency(kit_map[key][k]))]]]
    /\ a_pc' = "returned"
    /\ UNCHANGED <<mode, a_matches, a_i, a_j, a_error, a_first, a_run,
                   probVars, colVars, xlsxVars, mainVars,
                   eraVars, parseVars>>

\* the caller keeps the first result and calls again on the same list
AggCallAgain ==
    /\ mode = "agg"
    /\ a_pc = "returned"
    /\ a_run = 1
    /\ a_first' = a_reports
    /\ a_run' = 2
    /\ a_pc' = "call"
    /\ UNCHANGED <<mode, a_matches, kit_map, a_i, a_j, a_error, a_reports,
                   probVars, colVars, xlsxVars, mainVars,
                   eraVars, parseVars>>

NextAgg == AggCall \/ AggReward \/ AggNextEntry \/ AggRank \/ AggCallAgain

SpecAgg == InitAgg /\ [][NextAgg]_vars

----------------------------------------------------------------------------
(* main: classify the rewards of every entity, then aggregate.               *)

InitRun ==
    /\ mode = "run"
    /\ entities \in UNION {[1 .. n -> EntityInputs] : n \in 1 .. MaxEntities}
    /\ m_i = 1
    /\ m_pc = "entities"
    /\ m_error = ""
    /\ a_matches = <<>>
    /\ kit_map = EmptyKitMap
    /\ a_i = 0
    /\ a_j = 0
    /\ a_pc = "idle"
    /\ a_error = ""
    /\ a_reports = EmptyKitMap
    /\ a_first = EmptyKitMap
    /\ a_run = 1
    /\ ProbIdle
    /\ ColIdle
    /\ XlsxIdle
    /\ EraIdle
    /\ ParseIdle

\* lines 267-302: one iteration of the loop over the entities
MainEntity ==
    /\ m_pc = "entities"
    /\ m_i <= Len(entities)
    /\ LET entity == entities[m_i]
           era_component == EraComponent(entity)
       IN  IF era_component = None
           THEN /\ m_i' = m_i + 1
                /\ UNCHANGED <<a_matches, m_pc, m_error>>
           ELSE IF EntityError(era_component) # ""
           THEN /\ m_error' = EntityError(era_component)
                /\ m_pc' = "raised"
                /\ UNCHANGED <<a_matches, m_i>>
           ELSE /\ a_matches' = IF EraRewards(era_component) = <<>> THEN a_matches
                                ELSE Append(a_matches, MatchEntry(entity, era_component))
                /\ m_i' = m_i + 1
                /\ UNCHANGED <<m_pc, m_error>>
    /\ UNCHANGED <<mode, entities, kit_map, a_i, a_j, a_pc, a_error, a_reports, a_first,
                   a_run, probVars, colVars, xlsxVars,
                   eraVars, parseVars>>

\* line 304: the call of aggregate_kit_reports(matches)
MainAggregate ==
    /\ m_pc = "entities"
    /\ m_i > Len(entities)
    /\ m_pc' = "aggregate"
    /\ a_pc' = "call"
    /\ UNCHANGED <<mode, entities, m_i, m_error, a_matches, kit_map, a_i, a_j, a_error,
                   a_reports, a_first, a_run, probVars, colVars, xlsxVars,
                   eraVars, parseVars>>

\* line 304: the call returns kit_reports, or its exception ends the run
MainReturn ==
    /\ m_pc = "aggregate"
    /\ a_pc \in {"returned", "raised"}
    /\ m_pc' = IF a_pc = "raised" THEN "raised" ELSE "done"
    /\ m_error' = a_error
    /\ UNCHANGED <<mode, entities, m_i, aggVars, probVars, colVars, xlsxVars,
                   eraVars, parseVars>>

NextRun ==
    \/ MainEntity \/ MainAggregate \/ MainReturn
    \/ AggCall \/ AggReward \/ AggNextEntry \/ AggRank

SpecRun == InitRun /\ [][NextRun]_vars

----------------------------------------------------------------------------
(* The body of main's loop for one entity: the lookup table is built, then   *)
(* every tuple of the resolver is looked up and classified.                  *)

InitEra ==
    /\ mode = "era"
    /\ er_component \in EraInputs
    /\ er_lookup = None
    /\ er_pos = 0
    /\ er_leaf = None
    /\ er_entry = None
    /\ er_parsed = None
    /\ er_rewards = <<>>
    /\ er_pc = "lookup"
    /\ er_error = ""
    /\ ProbIdle
    /\ ColIdle
    /\ XlsxIdle
    /\ AggIdle
    /\ MainIdle
    /\ ParseIdle

\* lines 277-278
EraLookup ==
    /\ mode = "era"
    /\ er_pc = "lookup"
    /\ er_lookup' = reward_lookup(er_component)
    /\ er_pc' = "loop"
    /\ UNCHANGED <<mode, er_component, er_pos, er_leaf, er_entry, er_parsed, er_rewards,
                   er_error,
                   probVars, colVars, xlsxVars, aggVars, mainVars, parseVars>>

\* lines 279-289: one iteration of the loop over the resolver's tuples;
\* parse_reward_entry may raise
EraLeaf ==
    /\ mode = "era"
    /\ er_pc = "loop"
    /\ er_pos < Len(iter_reward_products(er_component))
    /\ LET leaf == iter_reward_products(er_component)[er_pos + 1]
           reward_entry == LookupGet(er_lookup, leaf.rid, leaf.reward)
       IN  /\ er_pos' = er_pos + 1
           /\ er_leaf' = leaf
           /\ er_entry' = reward_entry
           /\ IF ParseError(reward_entry) # ""
              THEN /\ er_error' = ParseError(reward_entry)
                   /\ er_pc' = "raised"
                   /\ UNCHANGED <<er_parsed, er_rewards>>
              ELSE /\ er_parsed' = parse_reward_entry(reward_entry)
                   /\ er_rewards' = IF parse_reward_entry(reward_entry) = None THEN er_rewards
                                    ELSE Append(er_rewards, Classify(leaf, reward_entry))
                   /\ UNCHANGED <<er_pc, er_error>>
    /\ UNCHANGED <<mode, er_component, er_lookup,
                   probVars, colVars, xlsxVars, aggVars, mainVars, parseVars>>

\* line 279: the resolver is exhausted and the loop ends
EraEnd ==
    /\ mode = "era"
    /\ er_pc = "loop"
    /\ er_pos = Len(iter_reward_products(er_component))
    /\ er_pc' = "done"
    /\ UNCHANGED <<mode, er_component, er_lookup, er_pos, er_leaf, er_entry, er_parsed,
                   er_rewards, er_error, probVars, colVars, xlsxVars, aggVars, mainVars, parseVars>>

NextEra == EraLookup \/ EraLeaf \/ EraEnd

SpecEra == InitEra /\ [][NextEra]_vars

----------------------------------------------------------------------------
(* parse_reward_entry applied to a payload.                                 *)

InitParse ==
    /\ mode = "parse"
    /\ pr_entry \in PayloadInputs
    /\ pr_result = None
    /\ pr_pc = "call"
    /\ pr_error = ""
    /\ ProbIdle
    /\ ColIdle
    /\ XlsxIdle
    /\ AggIdle
    /\ MainIdle
    /\ EraIdle

\* lines 28-62: the call returns a dict or None, or raises
CallParseRewardEntry ==
    /\ mode = "parse"
    /\ pr_pc = "call"
    /\ IF ParseError(pr_entry) # ""
       THEN /\ pr_error' = ParseError(pr_entry)
            /\ pr_pc' = "raised"
            /\ UNCHANGED pr_result
       ELSE /\ pr_result' = parse_reward_entry(pr_entry)
            /\ pr_pc' = "returned"
            /\ UNCHANGED pr_error
    /\ UNCHANGED <<mode, pr_entry, probVars, colVars, xlsxVars, aggVars, mainVars, eraVars>>

NextParse == CallParseRewardEntry

SpecParse == InitParse /\ [][NextParse]_vars

----------------------------------------------------------------------------
(* Properties.                                                              *)

\* the value of a column name read as a bijective base-26 numeral (A = 1 ..
\* Z = 26, most significant letter first)
LetterDigit(ch) == CHOOSE k \in 1 .. 26 : AsciiUpper[k] = ch

RECURSIVE ColumnValue(_)
ColumnValue(name) ==
    IF name = <<>> THEN 0
    ELSE 26 * ColumnValue(SubSeq(name, 1, Len(name) - 1)) + LetterDigit(name[Len(name)])

\* the ranked lists returned by the current call, as one set of (kit, list)
RankedLists == {a_reports[key] : key \in KitKeySet}

\* the footprint of a bucket is known
AreaKnown(bucket) == bucket.area # None /\ bucket.area.i # 0

\* expected / area of a bucket whose footprint is known
DefinedEfficiency(bucket) == RDiv(bucket.expected, RInt(bucket.area.i))

\* a <= b for two building names
NameLe(a, b) == a = b \/ StrLess(a, b)

\* C1: in every ranked list returned, of two buckets with defined efficiencies
\* the one with the higher efficiency comes first and, the efficiencies being
\* equal, the one with the smaller name; of two buckets with undefined
\* efficiencies the one with the smaller name comes first.
C1_RankedByEfficiencyThenName ==
    a_pc = "returned" =>
        \A ranked \in RankedLists : \A i, j \in 1 .. Len(ranked) :
            i < j =>
                /\ (AreaKnown(ranked[i]) /\ AreaKnown(ranked[j])) =>
                      \/ RLt(DefinedEfficiency(ranked[j]), DefinedEfficiency(ranked[i]))
                      \/ /\ DefinedEfficiency(ranked[i]) = DefinedEfficiency(ranked[j])
                         /\ NameLe(ranked[i].name, ranked[j].name)
                /\ (~AreaKnown(ranked[i]) /\ ~AreaKnown(ranked[j])) =>
                      NameLe(ranked[i].name, ranked[j].name)

\* C1 witness: a returned list ranks a bucket of higher efficiency, entered
\* later, before one of lower efficiency.
C1_Witness ==
    /\ a_pc = "returned"
    /\ \E ranked \in RankedLists :
          /\ Len(ranked) = 2
          /\ AreaKnown(ranked[1]) /\ AreaKnown(ranked[2])
          /\ RLt(DefinedEfficiency(ranked[2]), DefinedEfficiency(ranked[1]))
          /\ ranked[1].key = BuildingId(a_matches[2])

\* C2: no ranked list returned has a bucket of unknown footprint before a
\* bucket whose efficiency is defined, and the aggregation raises no error.
C2_UnknownFootprintNeverAbove ==
    /\ a_pc # "raised"
    /\ a_pc = "returned" =>
          \A ranked \in RankedLists : \A i, j \in 1 .. Len(ranked) :
              i < j => ~(~AreaKnown(ranked[i]) /\ AreaKnown(ranked[j]))

\* the rewards already accumulated by the current call: (entry, reward) places
ProcessedPlaces ==
    {pl \in UNION {{<<i, j>> : j \in 1 .. Len(a_matches[i].rewards)} :
                       i \in 1 .. Len(a_matches)} :
        \/ a_pc = "returned"
        \/ a_pc = "loop" /\ (pl[1] < a_i \/ (pl[1] = a_i /\ pl[2] < a_j))}

\* fragments_equivalent x effective_probability of a reward, as the claim states it
ClaimedContribution(reward) ==
    LET amount == AmountFloat(reward.amount)
        fragments_equivalent ==
            IF reward.unit = PyStr("kits") THEN RMul(amount, RInt(30)) ELSE amount
        effective_probability ==
            IF reward.drop_chance = None THEN RInt(1) ELSE reward.drop_chance.v
    IN  RMul(fragments_equivalent, effective_probability)

RECURSIVE SumContributions(_)
SumContributions(places) ==
    IF places = {} THEN RInt(0)
    ELSE LET pl == CHOOSE q \in places : TRUE
         IN  RAdd(ClaimedContribution(a_matches[pl[1]].rewards[pl[2]]),
                  SumContributions(places \ {pl}))

\* the places accumulated into the bucket `key` of kit `kit`
PlacesOf(kit, key) ==
    {pl \in ProcessedPlaces :
        /\ a_matches[pl[1]].rewards[pl[2]].kit_subtype = kit
        /\ BuildingId(a_matches[pl[1]]) = key}

\* C3: at every point of a call, each bucket's expected total is the sum of
\* fragments_equivalent x effective_probability over the rewards accumulated
\* into it, and the bucket holds one record per such reward.
C3_ExpectedIsSumOfContributions ==
    a_pc \in {"loop", "returned"} =>
        \A kit \in KitKeySet : \A k \in 1 .. Len(kit_map[kit]) :
            LET bucket == kit_map[kit][k]
            IN  /\ bucket.expected = SumContributions(PlacesOf(kit, bucket.key))
                /\ Len(bucket.records) = Cardinality(PlacesOf(kit, bucket.key))

\* C3 witness: a call has returned a bucket that accumulated a kits reward and a
\* fragments reward, both with a drop chance of one half: 15 + 15 = 30.
C3_Witness ==
    /\ a_pc = "returned"
    /\ \E k \in 1 .. Len(a_reports["one_up_kit"]) :
          /\ Len(a_reports["one_up_kit"][k].records) = 2
          /\ a_reports["one_up_kit"][k].records[2].fragments = RInt(30)
          /\ a_reports["one_up_kit"][k].records[2].probability = PyFloat(Rat(1, 2))
          /\ a_reports["one_up_kit"][k].expected = RInt(30)

\* C10: a second, independent call on the same list of matches returns the same
\* ranked lists (same order, same expected totals) as the first.
C10_SecondRunIdentical ==
    (a_pc = "returned" /\ a_run = 2) => a_reports = a_first

\* C10 witness: the second call has returned, with a non-empty ranked list.
C10_Witness ==
    /\ a_pc = "returned"
    /\ a_run = 2
    /\ Len(a_reports["one_up_kit"]) = 2
    /\ a_first = a_reports

\* the classified rewards of kit `kit` of the entity at index e
KitRewardsOf(e, kit) ==
    LET era_component == EraComponent(entities[e])
    IN  IF era_component = None THEN <<>>
        ELSE SelectSeq(EraRewards(era_component), LAMBDA reward : reward.kit_subtype = kit)

\* the entities that have a classified reward of kit `kit`
ProducersOf(kit) == {e \in 1 .. Len(entities) : KitRewardsOf(e, kit) # <<>>}

\* the key under which the aggregator files the entity at index e
KeyOfEntity(e) == PyOr(Get(entities[e], "id"), GetOr(entities[e], "name", Get(entities[e], "id")))

\* C4: at the end of a run, for every kit type, the buildings with a
\* classified reward of that kit are exactly the buildings that have a bucket,
\* each has a bucket of its own holding its rewards alone, and no two buildings
\* share a bucket.
C4_OneBucketPerProducingBuilding ==
    m_pc = "done" =>
        \A kit \in KitKeySet :
            /\ Len(a_reports[kit]) = Cardinality(ProducersOf(kit))
            /\ \A e \in 1 .. Len(entities) :
                  (e \in ProducersOf(kit)) <=>
                      \E k \in 1 .. Len(a_reports[kit]) :
                          /\ a_reports[kit][k].key = KeyOfEntity(e)
                          /\ Len(a_reports[kit][k].records) = Len(KitRewardsOf(e, kit))

\* the input with the nodes of unexpected shape taken out: what is left of
\* each such production is the well-formed sibling alone
WithoutMalformedNodes(entity) ==
    LET comps == Get(entity, "components")
    IN  IF HasKey(comps, Era)
           /\ comps.d[Era] \in {EraData(Productions.tolerated),
                                EraData(Productions.listSubtype),
                                EraData(Productions.textAmount)}
        THEN PyDict([entity.d EXCEPT !.components =
                        PyDict([comps.d EXCEPT ![Era] = EraData(Productions.kit)])])
        ELSE entity

\* matches as main builds it from a list of entities none of which raises
RECURSIVE MatchesOf(_)
MatchesOf(ents) ==
    IF ents = <<>> THEN <<>>
    ELSE LET entity == ents[Len(ents)]
             before == MatchesOf(SubSeq(ents, 1, Len(ents) - 1))
             era_component == EraComponent(entity)
         IN  IF era_component = None THEN before
             ELSE IF EraRewards(era_component) = <<>> THEN before
             ELSE Append(before, MatchEntry(entity, era_component))

\* the bucket map after the rewards rewards[1..n] of an entry
RECURSIVE AfterRewards(_, _, _)
AfterRewards(map, entry, n) ==
    IF n = 0 THEN map
    ELSE AggregateReward(AfterRewards(map, entry, n - 1), entry, entry.rewards[n])

RECURSIVE AfterEntries(_, _)
AfterEntries(matches, n) ==
    IF n = 0 THEN EmptyKitMap
    ELSE AfterRewards(AfterEntries(matches, n - 1), matches[n], Len(matches[n].rewards))

\* the ranked lists of a list of matches none of whose amounts raises
ReportsOf(matches) ==
    [key \in KitKeySet |-> RankKit(AfterEntries(matches, Len(matches))[key])]

\* C6: a node of unexpected shape (a non-dict option, non-list products, a
\* non-dict product or reward, a subtype that is no string, an amount that is no
\* number) raises no error, and the run ends with the result it would have had
\* with that node absent.
C6_MalformedNodesSkipped ==
    /\ m_pc # "raised"
    /\ m_pc = "done" =>
          a_reports = ReportsOf(MatchesOf([e \in 1 .. Len(entities) |->
                                              WithoutMalformedNodes(entities[e])]))

\* the value of a numeric chance input
ChanceValue == NumberToRat(pvalue)

\* C5 as stated: every numeric chance value yields a drop probability, and an
\* effective probability, in the closed interval [0,1].
C5_AlwaysInUnitInterval ==
    (ppc = "done" /\ IsNumber(pvalue)) =>
        /\ presult.t = "float"
        /\ RLe(RInt(0), presult.v) /\ RLe(presult.v, RInt(1))
        /\ RLe(RInt(0), peffective) /\ RLe(peffective, RInt(1))

\* C5 as amended: a numeric chance value v is carried unchanged when v <= 1 and
\* as v / 100 when v > 1, the aggregator's effective probability is that same
\* number, and it lies in [0,1] exactly when 0 <= v <= 100.
C5_NormalizedByRule ==
    (ppc = "done" /\ IsNumber(pvalue)) =>
        /\ presult.t = "float"
        /\ RLe(ChanceValue, RInt(1)) => presult.v = ChanceValue
        /\ RLt(RInt(1), ChanceValue) => RMul(presult.v, RInt(100)) = ChanceValue
        /\ peffective = presult.v
        /\ (RLe(RInt(0), peffective) /\ RLe(peffective, RInt(1)))
              <=> (RLe(RInt(0), ChanceValue) /\ RLe(ChanceValue, RInt(100)))

\* C5 witness: the percentage 50 has been normalized to 0.5 and used as the
\* effective probability.
C5_Witness ==
    /\ ppc = "done"
    /\ pvalue = PyInt(50)
    /\ presult = PyFloat(Rat(1, 2))
    /\ peffective = Rat(1, 2)

\* the names of the entries of the archive, and the data of the entry `name`
PartNames == {x_zf[k].name : k \in 1 .. Len(x_zf)}
PartData(name) == x_zf[CHOOSE k \in 1 .. Len(x_zf) : x_zf[k].name = name].data

\* the parts that are not worksheet parts
FixedPartNames ==
    {"[Content_Types].xml", "_rels/.rels", "docProps/core.xml", "docProps/app.xml",
     "xl/styles.xml", "xl/workbook.xml", "xl/_rels/workbook.xml.rels"}

\* some sheet has two rows with different numbers of cells
Ragged(sheets) ==
    \E k \in 1 .. Len(sheets) : \E r1, r2 \in 1 .. Len(sheets[k].rows) :
        Len(sheets[k].rows[r1]) # Len(sheets[k].rows[r2])

\* C7: when the rows of a sheet do not all have the same number of cells,
\* create_xlsx writes nothing into the container and never completes a package.
C7_RaggedRowsRejected ==
    Ragged(x_sheets) => (x_zf = <<>> /\ x_file # "closed" /\ x_pc # "done")

\* C8: for any number of sheets the finished package is internally consistent:
\* every relationship target is a part of the archive, every sheet of the
\* workbook manifest has its own sheetId and a relationship id bound to exactly
\* one written worksheet part, the styles relationship id is no sheet's id, and
\* the content types list every worksheet part and the workbook, styles, core
\* and app parts.
C8_PackageConsistent ==
    x_pc = "done" =>
        LET rootRels == PartData("_rels/.rels")
            wbRels   == PartData("xl/_rels/workbook.xml.rels")
            wb       == PartData("xl/workbook.xml")
            ct       == PartData("[Content_Types].xml")
            listed   == {ct[k] : k \in 1 .. Len(ct)}
            sheetParts == PartNames \ FixedPartNames
            BoundTo(i) == {k \in 1 .. Len(wbRels) : wbRels[k].Id = wb[i].rid}
        IN  /\ FixedPartNames \subseteq PartNames
            /\ Cardinality(PartNames) = Len(x_zf)
            /\ Cardinality(sheetParts) = Len(x_sheets)
            /\ \A k \in 1 .. Len(rootRels) : rootRels[k].Target \in PartNames
            /\ \A k \in 1 .. Len(wbRels) : ("xl/" \o wbRels[k].Target) \in PartNames
            /\ Len(wb) = Len(x_sheets)
            /\ \A i, j \in 1 .. Len(wb) :
                  i # j => /\ wb[i].sheetId # wb[j].sheetId
                           /\ wb[i].rid # wb[j].rid
            /\ \A i \in 1 .. Len(wb) :
                  /\ Cardinality(BoundTo(i)) = 1
                  /\ \A k \in BoundTo(i) :
                        /\ wbRels[k].Type = "worksheet"
                        /\ ("xl/" \o wbRels[k].Target) \in sheetParts
            /\ \E k \in 1 .. Len(wbRels) : wbRels[k].Type = "styles"
            /\ \A k \in 1 .. Len(wbRels) :
                  wbRels[k].Type = "styles" =>
                      /\ ("xl/" \o wbRels[k].Target) = "xl/styles.xml"
                      /\ \A i \in 1 .. Len(wb) : wb[i].rid # wbRels[k].Id
            /\ {"/" \o q : q \in sheetParts} \subseteq listed
            /\ {"/xl/workbook.xml", "/xl/styles.xml", "/docProps/core.xml",
                "/docProps/app.xml"} \subseteq listed

\* C8 witness: a package of two sheets has been completed, with the second
\* worksheet part in it.
C8_Witness ==
    /\ x_pc = "done"
    /\ Len(x_sheets) = 2
    /\ "xl/worksheets/sheet2.xml" \in PartNames

\* C9: for every index i >= 1, column_name returns a non-empty string over A..Z
\* whose bijective base-26 value is i (so distinct indices give distinct names),
\* and 1 -> A, 26 -> Z, 27 -> AA, 702 -> ZZ.
C9_ColumnNameBijective ==
    (col_pc = "done" /\ col_input >= 1) =>
        /\ col_name # <<>>
        /\ \A k \in 1 .. Len(col_name) : \E j \in 1 .. 26 : AsciiUpper[j] = col_name[k]
        /\ ColumnValue(col_name) = col_input
        /\ col_input = 1 => col_name = <<"A">>
        /\ col_input = 26 => col_name = <<"Z">>
        /\ col_input = 27 => col_name = <<"A", "A">>
        /\ col_input = 702 => col_name = <<"Z", "Z">>

\* C9 witness: index 702 has been named ZZ.
C9_Witness == col_pc = "done" /\ col_input = 702 /\ col_name = <<"Z", "Z">>

----------------------------------------------------------------------------
(* Properties of the per-entity loop.                                       *)

\* the era component has one option with one product
HasSoleProduct(component) ==
    LET options == component.d.production.d.options.items
    IN  /\ Len(options) = 1
        /\ IsDict(options[1])
        /\ IsList(Get(options[1], "products"))
        /\ Len(options[1].d.products.items) = 1
SoleProduct(component) == component.d.production.d.options.items[1].d.products.items[1]

\* the expected contribution of a classified reward (lines 349-363)
ExpectedFragments(reward) ==
    RMul(FragmentsOf(AmountFloat(reward.amount), reward.unit), EffectiveProb(reward.drop_chance))

\* a set of positions as the sequence of its elements in ascending order
RECURSIVE Ascending(_)
Ascending(positions) ==
    IF positions = {} THEN <<>>
    ELSE LET last == CHOOSE k \in positions : \A m \in positions : m <= k
         IN  Append(Ascending(positions \ {last}), last)

\* C11: for a chest product, every candidate whose reward is a mapping is
\* emitted as its own leaf carrying that candidate's own normalized chance
\* (none when the candidate has none), and exactly the candidates whose
\* payload classifies as a target kit become classified rewards; the chest of
\* a renovation-kit fragment candidate (amount 5, chance 10) and a candidate
\* that is no kit yields exactly one classified reward: 5 fragments at
\* probability 1/10, with expected contribution 1/2.
C11_ChestCandidatesClassified ==
    (mode = "era" /\ HasSoleProduct(er_component)
        /\ Get(SoleProduct(er_component), "type") = PyStr("chest")) =>
        LET candidates == SoleProduct(er_component).d.possible_rewards.items
            IsEmitted(k) == IsDict(candidates[k]) /\ IsDict(Get(candidates[k], "reward"))
            emitted == Ascending({k \in 1 .. Len(candidates) : IsEmitted(k)})
            Resolved(k) == LookupGet(reward_lookup(er_component),
                                     Get(candidates[k].d.reward, "id"),
                                     candidates[k].d.reward)
            IsKept(j) == parse_reward_entry(Resolved(emitted[j])) # None
            kept == Ascending({j \in 1 .. Len(emitted) : IsKept(j)})
        IN  /\ er_pos <= Len(emitted)
            /\ er_pos >= 1 =>
                  /\ er_leaf.reward = candidates[emitted[er_pos]].d.reward
                  /\ er_leaf.drop_chance = NodeDrop(candidates[emitted[er_pos]])
            /\ er_pc = "done" =>
                  /\ er_pos = Len(emitted)
                  /\ Len(er_rewards) = Len(kept)
                  /\ \A j \in 1 .. Len(kept) :
                        LET candidate == candidates[emitted[kept[j]]]
                            parsed == parse_reward_entry(Resolved(emitted[kept[j]]))
                        IN  /\ er_rewards[j].kit_subtype = parsed.kit_subtype
                            /\ er_rewards[j].amount = parsed.amount
                            /\ er_rewards[j].unit = parsed.unit
                            /\ er_rewards[j].drop_chance = NodeDrop(candidate)
            /\ (er_pc = "done" /\ er_component = OneOption(<<RenovationChest>>, FALSE)) =>
                  /\ Len(er_rewards) = 1
                  /\ er_rewards[1].kit_subtype = "renovation_kit"
                  /\ er_rewards[1].unit = PyStr("fragments")
                  /\ er_rewards[1].amount = PyInt(5)
                  /\ er_rewards[1].drop_chance = PyFloat(Rat(1, 10))
                  /\ ExpectedFragments(er_rewards[1]) = Rat(1, 2)

C11_Witness ==
    /\ mode = "era"
    /\ er_pc = "done"
    /\ er_component = OneOption(<<RenovationChest>>, FALSE)
    /\ er_pos = 2
    /\ Len(er_rewards) = 1
    /\ er_rewards[1].drop_chance = PyFloat(Rat(1, 10))

\* The paths of the resolver's walk, one per emitted leaf in the order of
\* emission: the nodes passed from the option down to the leaf, each with its
\* kind ("option", "product" for a top-level product, "sub" for a sub-product
\* of a random node, "nested" for the product a sub-product wraps, "candidate"
\* for a candidate of a chest).
Step(kind, node) == [kind |-> kind, node |-> node]

RECURSIVE PathsBelow(_, _)
RECURSIVE PathsOfSubProducts(_, _)
RECURSIVE PathsOfCandidates(_, _)
RECURSIVE PathsOfProducts(_, _)
RECURSIVE PathsOfOptions(_)

PathsOfCandidates(candidates, path) ==
    IF candidates = <<>> THEN <<>>
    ELSE LET candidate == Head(candidates)
             rest == PathsOfCandidates(Tail(candidates), path)
         IN  IF IsDict(candidate) /\ IsDict(Get(candidate, "reward"))
             THEN <<path \o <<Step("candidate", candidate)>> >> \o rest
             ELSE rest

PathsOfSubProducts(sub_products, path) ==
    IF sub_products = <<>> THEN <<>>
    ELSE LET sub == Head(sub_products)
             rest == PathsOfSubProducts(Tail(sub_products), path)
             nested == IF IsDict(sub) THEN PyOr(Get(sub, "product"), Get(sub, "reward"))
                       ELSE None
         IN  IF IsDict(nested)
             THEN PathsBelow(nested, path \o <<Step("sub", sub), Step("nested", nested)>>)
                  \o rest
             ELSE rest

\* the paths of the leaves emitted for a product; path ends with the product
PathsBelow(product, path) ==
    LET HasReward == IsDict(Get(product, "reward")) /\ Truthy(Get(product, "reward"))
        ptype == Get(product, "type")
    IN  IF ptype = PyStr("genericReward") /\ HasReward THEN <<path>>
        ELSE IF ptype = PyStr("random")
        THEN (IF ~HasKey(product, "products") THEN <<>>
              ELSE IF IsList(product.d.products)
              THEN PathsOfSubProducts(product.d.products.items, path)
              ELSE <<>>)
        ELSE IF ptype = PyStr("chest")
        THEN LET possibles == PyOr(Get(product, "possible_rewards"),
                                   Get(product, "possibleRewards"))
             IN  IF IsList(possibles) THEN PathsOfCandidates(possibles.items, path) ELSE <<>>
        ELSE IF HasReward THEN <<path>>
        ELSE <<>>

PathsOfProducts(products, path) ==
    IF products = <<>> THEN <<>>
    ELSE LET product == Head(products)
             rest == PathsOfProducts(Tail(products), path)
         IN  IF IsDict(product)
             THEN PathsBelow(product, path \o <<Step("product", product)>>) \o rest
             ELSE rest

PathsOfOptions(options) ==
    IF options = <<>> THEN <<>>
    ELSE LET option == Head(options)
             rest == PathsOfOptions(Tail(options))
         IN  IF IsDict(option) /\ IsList(Get(option, "products"))
             THEN PathsOfProducts(option.d.products.items, <<Step("option", option)>>) \o rest
             ELSE rest

Paths(component) == PathsOfOptions(component.d.production.d.options.items)

\* the path of the tuple taken last
CurrentPath == Paths(er_component)[er_pos]

\* the node carries one of the recognised chance keys
HasChance(node) == \E k \in 1 .. Len(DROP_KEYS) : HasKey(node, DROP_KEYS[k])

\* the chance handed down a path when every top-level product, sub-product
\* and candidate passes the inherited chance on unless it carries its own
RECURSIVE InheritedChance(_)
InheritedChance(path) ==
    IF path = <<>> THEN None
    ELSE LET last == path[Len(path)]
             inherited == InheritedChance(SubSeq(path, 1, Len(path) - 1))
         IN  IF last.kind \in {"product", "sub", "candidate"} /\ HasChance(last.node)
             THEN NodeDrop(last.node)
             ELSE inherited

\* C12: at every node of the walk (top-level product, random sub-product,
\* chest candidate) that carries none of the recognised chance keys the
\* inherited chance is passed on unchanged to the leaves below it, so that a
\* leaf has no chance only if none was set anywhere on its path.
C12_ChanceInheritedAtEveryNode ==
    (mode = "era" /\ er_pos >= 1) =>
        /\ er_leaf.drop_chance = InheritedChance(CurrentPath)
        /\ er_leaf.drop_chance = None =>
              \A k \in 1 .. Len(CurrentPath) :
                  CurrentPath[k].kind \in {"product", "sub", "candidate"}
                      => ~HasChance(CurrentPath[k].node)

\* onlyWhenMotivated is true on the node
IsFlagged(node) == Get(node, "onlyWhenMotivated") = PyBool(TRUE)

\* C13: the motivation flag of a leaf is the logical OR of onlyWhenMotivated
\* on the option and on every product, sub-product and nested product on its
\* path: once true on the path, the flag of the leaf is true.
C13_MotivationMonotonic ==
    (mode = "era" /\ er_pos >= 1) =>
        er_leaf.requires_motivation =
            (\E k \in 1 .. Len(CurrentPath) :
                /\ CurrentPath[k].kind \in {"option", "product", "sub", "nested"}
                /\ IsFlagged(CurrentPath[k].node))

\* the positions of the sub-products on a path that carry their own chance
ChancedSubProducts(path) ==
    {k \in 1 .. Len(path) : path[k].kind = "sub" /\ HasChance(path[k].node)}

\* C14 as stated: a sub-product of a random node that carries its own chance
\* gives every leaf below it exactly that normalized chance.
C14_SubChanceOnEveryLeafBelow ==
    (mode = "era" /\ er_pos >= 1) =>
        \A k \in ChancedSubProducts(CurrentPath) :
            er_leaf.drop_chance = NodeDrop(CurrentPath[k].node)

\* C14, amended: the chance of a sub-product replaces the inherited chance and
\* is never multiplied with it; a leaf below sub-products that carry their own
\* chance has the normalized chance of the innermost of them, except a leaf of
\* a chest candidate, which has the candidate's own chance or none.
C14_InnermostSubChanceReplaces ==
    (mode = "era" /\ er_pos >= 1 /\ ChancedSubProducts(CurrentPath) # {}) =>
        LET path == CurrentPath
            innermost == CHOOSE k \in ChancedSubProducts(path) :
                             \A m \in ChancedSubProducts(path) : m <= k
        IN  IF path[Len(path)].kind = "candidate"
            THEN er_leaf.drop_chance = NodeDrop(path[Len(path)].node)
            ELSE er_leaf.drop_chance = NodeDrop(path[innermost].node)

\* a leaf under a top-level product with chance 50 and a sub-product with
\* chance 30 has chance 3/10
C14_Witness ==
    /\ mode = "era"
    /\ er_pos = 1
    /\ Len(CurrentPath) = 4
    /\ NodeDrop(CurrentPath[2].node) = PyFloat(Rat(1, 2))
    /\ CurrentPath[3].kind = "sub"
    /\ NodeDrop(CurrentPath[3].node) = PyFloat(Rat(3, 10))
    /\ er_leaf.drop_chance = PyFloat(Rat(3, 10))
    /\ Len(er_rewards) = 1
    /\ er_rewards[1].drop_chance = PyFloat(Rat(3, 10))

----------------------------------------------------------------------------
(* Properties of the classifier.                                            *)

IsKitKey(value) == \E key \in KitKeySet : value = PyStr(key)

\* the payload wraps an assembled reward whose subtype is a target kit
WrapsKit(entry) ==
    /\ IsDict(Get(entry, "assembledReward"))
    /\ IsKitKey(Get(entry.d.assembledReward, "subType"))

\* the rule that decides a payload: the first of rules 1 to 3 that applies,
\* 4 when none does
DecidingRule(entry) ==
    IF ~IsDict(entry) THEN 4
    ELSE IF Get(entry, "subType") = PyStr("fragment") /\ WrapsKit(entry) THEN 1
    ELSE IF IsKitKey(Get(entry, "subType")) THEN 2
    ELSE IF WrapsKit(entry) THEN 3
    ELSE 4

----------------------------------------------------------------------------
(* Properties of the lookup.                                                *)

\* the lookup table of the era: lookup.rewards, a mapping from id to payload
\* or a list of payloads that carry their id
TableOf(component) ==
    IF IsDict(Get(component, "lookup")) THEN Get(component.d.lookup, "rewards") ELSE None

\* the positions of a list-shaped table that hold the payload of the id
ListedAt(table, id) ==
    {k \in 1 .. Len(table.items) :
        IsDict(table.items[k]) /\ Get(table.items[k], "id") = id}

\* the id is a key of the table
Resolves(table, id) ==
    /\ IsStr(id)
    /\ \/ IsDict(table) /\ id.s \in DOMAIN table.d
       \/ IsList(table) /\ ListedAt(table, id) # {}

\* the payload the table holds for the id
Canonical(table, id) ==
    IF IsDict(table) THEN table.d[id.s]
    ELSE table.items[CHOOSE k \in ListedAt(table, id) : \A m \in ListedAt(table, id) : m <= k]

\* the inline payload of the tuple taken last: the reward of the product or
\* candidate that ends its path
InlinePayload == CurrentPath[Len(CurrentPath)].node.d.reward

\* C16: when the reward id of a resolved reference is present and is a key of
\* the era's lookup table, the payload classified is the looked-up one and the
\* inline payload is ignored, also when the inline payload would classify and
\* the looked-up one does not; when the id is absent or not in the table, the
\* inline payload is classified.
C16_LookupPrecedence ==
    (mode = "era" /\ er_pos >= 1) =>
        LET table == TableOf(er_component)
            id == Get(InlinePayload, "id")
        IN  /\ er_entry = (IF Resolves(table, id) THEN Canonical(table, id)
                           ELSE InlinePayload)
            /\ er_pc # "raised" =>
                  /\ (er_parsed = None) <=> (DecidingRule(er_entry) = 4)
                  /\ er_parsed # None =>
                        /\ er_rewards # <<>>
                        /\ er_rewards[Len(er_rewards)].kit_subtype = er_parsed.kit_subtype
                        /\ er_rewards[Len(er_rewards)].amount = er_parsed.amount
                        /\ er_rewards[Len(er_rewards)].unit = er_parsed.unit
                  /\ (er_pos = 1 /\ er_parsed = None) => er_rewards = <<>>

\* an inline kit whose id resolves to a payload that is no kit is discarded
C16_Witness ==
    /\ mode = "era"
    /\ er_pc = "done"
    /\ er_pos = 1
    /\ DecidingRule(InlinePayload) = 2
    /\ Get(InlinePayload, "id") = PyStr("r2")
    /\ Resolves(TableOf(er_component), PyStr("r2"))
    /\ er_entry = WithKey(CoinsPayload, "id", PyStr("r2"))
    /\ er_rewards = <<>>

====
